---- MODULE Spec2Model ----
(***************************************************************************)
(* Rule evaluation and task dispatch engine of @nan0web/share.app.         *)
(*                                                                         *)
(* The module models one call of executeTasks (src/core/RulesEngine.js)    *)
(* together with the adapters it drives: the verify() gate, the immediate  *)
(* lane, the timers of the delayed lane and the Promise.all join.  Steps   *)
(* are the pieces of code the event loop runs without interruption: from   *)
(* one await (or timer callback) to the next.                              *)
(*                                                                         *)
(* The pure functions of the engine (parseDelay, matchesConditions,        *)
(* SocialAdapterContent.validate) are operators; each has a specification  *)
(* of its own (DelaySpec, MatchSpec, ValidateSpec) that draws the          *)
(* arguments in its initial state and applies the function in one step.    *)
(* CustomSpec is executeTasks driving an adapter whose class leaves        *)
(* required members of SocialAdapter un-overridden.                        *)
(***************************************************************************)
EXTENDS Integers, Sequences, FiniteSets, TLC

\* ------------------------------------------------------------ bounds

\* Longest task list handed to executeTasks.
MaxTasks == 3

\* ------------------------------------------------------------ constants

\* Math.min(task.delayMs, 50): the cap on every timer.
TimerCap == 50

\* ------------------------------------------------------------ domains

\* Adapter instances (object identities held by the tasks).
Adapters == {"dummy", "telegram"}

\* An adapter written by the user of the library: a class that extends
\* SocialAdapter and may have left required members un-overridden.
CustomAdapter == "custom"
AllAdapters == Adapters \cup {CustomAdapter}

\* The required members executeTasks touches (syncFeedback, the fourth one, is
\* never called by the engine).
RequiredMembers == {"id", "verify", "publish"}

\* delayMs values of the tasks: parseDelay passes any number through, so a
\* negative delay reaches executeTasks; 30 is below the timer cap, 60 above.
Delays == {-1, 0, 30, 60}

\* An adapter that has not been asked yet.
NoValue == "none"

\* An optional value: <<>> when absent, <<v>> when present.
Nothing == <<>>
Some(v) == <<v>>

Min(a, b) == IF a <= b THEN a ELSE b

\* ------------------------------------------------------------ state

VARIABLES
    input,           \* the arguments of the pure function under study, if any
    output,          \* what that function returned or threw, once applied
    heap,            \* the objects content is made of: reference -> value
    evalPc,          \* where the evaluateRules call stands
    ruleIdx,         \* evaluateRules: position of the loop over rules
    targetIdx,       \* evaluateRules: position of the loop over rule.publish
    evalTasks,       \* evaluateRules: the tasks array
    taskOrigin,      \* per task built: the (rule, destination) pair it came from
    evalError,       \* what evaluateRules threw, if it did
    evalObs,         \* evaluateRules: what it has called so far
    mutatedVia,      \* the task through whose content something was written
    unimplemented,   \* required members the custom adapter's class leaves abstract
    rejectVerify,    \* DummyAdapterConfig.rejectVerify of the dummy adapter
    posts,           \* DummyAdapter.posts: postId -> index of the task stored
    tgMessageId,     \* Telegram platform: last message_id handed out
    now,             \* wall clock, in ms since the model's start
    pc,              \* where the executeTasks call stands
    tasks,           \* the tasks argument
    verifyOpt,       \* opts.verify
    verified,        \* the Map verified: adapter -> boolean
    vi,              \* position of the gate loop in tasks
    surviving,       \* tasks after the filter, as indices into the argument
    immediate,       \* tasks with delayMs === 0, as indices
    delayed,         \* tasks with delayMs > 0, as indices
    k,               \* position of the immediate loop
    results,         \* the results array
    resolved,        \* per task: the value its delayed promise resolved with, if any
    timer,           \* per task: "none" | "pending" | "fired"
    deadline,        \* per task: the time its timer is due
    error,           \* what the call rejected with, if it did
    unhandled,       \* tasks whose timer callback rejected with nobody awaiting it
    \* observations of the adapters' calls
    verifyCalls,     \* per adapter: number of verify() invocations
    verifyInFlight,  \* adapters whose verify() has not settled
    verifyRet,       \* per adapter: how its verify() settled
    pubCalls,        \* per task: number of publish() invocations
    pubState,        \* per task: "none" | "inflight" | "ok" | "failed"
    pubAt,           \* per task: the time publish() was invoked
    pubRet,          \* per task: what publish() returned, if it did
    schedAt          \* per task: the time setTimeout was called

evalVars == <<heap, evalPc, ruleIdx, targetIdx, evalTasks, taskOrigin, evalError,
              evalObs, mutatedVia>>
pureVars == <<input, output, evalVars>>
adapterVars == <<unimplemented, rejectVerify, posts, tgMessageId>>
callVars == <<pc, tasks, verifyOpt, verified, vi, surviving, immediate, delayed,
              k, results, resolved, timer, deadline, error, unhandled>>
obsVars == <<verifyCalls, verifyInFlight, verifyRet, pubCalls, pubState, pubAt,
             pubRet, schedAt>>
vars == <<pureVars, adapterVars, now, callVars, obsVars>>

\* ------------------------------------------------------------ inputs

RuleName(i) == <<"rule", i>>

\* A task as evaluateRules builds it (the content clone is not modelled here).
Task(a, d, i) == [adapter |-> a, delayMs |-> d, ruleName |-> RuleName(i)]

TaskLists ==
    UNION {{[i \in 1..n |-> Task(f[i][1], f[i][2], i)] : f \in [1..n -> Adapters \X Delays]}
           : n \in 0..MaxTasks}

TaskIds == DOMAIN tasks

\* ------------------------------------------------------------ adapters

\* Adapter a inherits the member from SocialAdapter, where it throws
\* NotImplementedError.
Missing(a, member) == a = CustomAdapter /\ member \in unimplemented

\* get id()
AdapterId(a) == a

\* How verify() of adapter a may settle.  SocialAdapter (not overridden):
\* throws NotImplementedError.  DummyAdapter: throws iff config.rejectVerify,
\* else true.  TelegramAdapter: getMe may fail (throw), and !!me.id is true or
\* false; an adapter of the user's may do any of these.
VerifyOutcomes(a) ==
    IF Missing(a, "verify") THEN {"notimplemented"}
    ELSE IF a = "dummy"
    THEN IF rejectVerify THEN {"throw"} ELSE {"true"}
    ELSE {"true", "false", "throw"}

\* The errors of the model: what failed, for which task, and the error's class.
Failure(what, t, a) ==
    [failed |-> what, task |-> t,
     name |-> IF Missing(a, what) THEN "NotImplementedError" ELSE "Error"]

\* The {id, url} publish() hands back when it succeeds at time t.
\* DummyAdapter: `dummy-post-${Date.now()}`; TelegramAdapter: String(message_id).
PublishReturn(a, t, msg) ==
    IF a = "dummy"
    THEN [id |-> <<"dummy-post-", t>>,
          url |-> <<"https://dummy.nan0web.app/posts/", <<"dummy-post-", t>>>>]
    ELSE IF a = "telegram"
    THEN [id |-> <<"tg", msg>>, url |-> <<"https://t.me/c/", <<"tg", msg>>>>]
    ELSE [id |-> <<"custom-post-", t>>, url |-> <<"https://custom/", t>>]

\* { ...result, ruleName: task.ruleName, adapter: task.adapter.id }
MakeResult(ret, task) ==
    [id |-> ret.id, url |-> ret.url, ruleName |-> task.ruleName,
     adapter |-> AdapterId(task.adapter)]

\* ------------------------------------------------------------ initial state

EmptyMap == [x \in {} |-> NoValue]

\* What evaluateRules has called so far: nothing.
NothingCalled ==
    [validated |-> FALSE, matched |-> 0, lookups |-> 0, parsed |-> 0, warned |-> {}]

\* evaluateRules has not been called; no object has been made.
EvalIdle ==
    /\ heap = EmptyMap
    /\ evalPc = "idle"
    /\ ruleIdx = 1
    /\ targetIdx = 1
    /\ evalTasks = <<>>
    /\ taskOrigin = <<>>
    /\ evalError = Nothing
    /\ evalObs = NothingCalled
    /\ mutatedVia = Nothing

\* The engine before executeTasks is called.
EngineInit ==
    /\ posts = EmptyMap
    /\ tgMessageId = 0
    /\ now = 0
    /\ pc = "idle"
    /\ tasks = <<>>
    /\ verifyOpt = FALSE
    /\ verified = EmptyMap
    /\ vi = 1
    /\ surviving = <<>>
    /\ immediate = <<>>
    /\ delayed = <<>>
    /\ k = 1
    /\ results = <<>>
    /\ resolved = <<>>
    /\ timer = <<>>
    /\ deadline = <<>>
    /\ error = Nothing
    /\ unhandled = {}
    /\ verifyCalls = [a \in AllAdapters |-> 0]
    /\ verifyInFlight = {}
    /\ verifyRet = [a \in AllAdapters |-> NoValue]
    /\ pubCalls = <<>>
    /\ pubState = <<>>
    /\ pubAt = <<>>
    /\ pubRet = <<>>
    /\ schedAt = <<>>

\* After construction of the adapters, before executeTasks is called: the
\* adapters are the library's own, which override every required member.
Init ==
    /\ input = Nothing
    /\ output = Nothing
    /\ unimplemented = {}
    /\ rejectVerify \in BOOLEAN
    /\ EvalIdle
    /\ EngineInit

\* ------------------------------------------------------------ executeTasks

\* const results = []; const { verify = false } = opts
ExecuteTasks(ts, v) ==
    /\ pc = "idle"
    /\ tasks' = ts
    /\ verifyOpt' = v
    /\ results' = <<>>
    /\ verified' = EmptyMap
    /\ vi' = 1
    /\ surviving' = [i \in 1..Len(ts) |-> i]
    /\ pc' = IF v THEN "gate" ELSE "partition"
    /\ resolved' = [i \in 1..Len(ts) |-> Nothing]
    /\ timer' = [i \in 1..Len(ts) |-> "none"]
    /\ deadline' = [i \in 1..Len(ts) |-> 0]
    /\ pubCalls' = [i \in 1..Len(ts) |-> 0]
    /\ pubState' = [i \in 1..Len(ts) |-> "none"]
    /\ pubAt' = [i \in 1..Len(ts) |-> 0]
    /\ pubRet' = [i \in 1..Len(ts) |-> Nothing]
    /\ schedAt' = [i \in 1..Len(ts) |-> 0]
    /\ UNCHANGED <<pureVars, adapterVars, now, immediate, delayed, k, error, unhandled,
                   verifyCalls, verifyInFlight, verifyRet>>

\* Mutant: the Map is never consulted, verify() runs for every task.
NeedsVerifyEveryTask(a) == TRUE

\* if (!verified.has(task.adapter))
NeedsVerify(a) == a \notin DOMAIN verified

\* verified.set(adapter, ok)
MapSet(m, key, val) == [x \in DOMAIN m \cup {key} |-> IF x = key THEN val ELSE m[x]]

\* The gate loop meets a task whose adapter is already in the Map.
GateSkip ==
    /\ pc = "gate"
    /\ vi <= Len(tasks)
    /\ ~NeedsVerify(tasks[vi].adapter)
    /\ vi' = vi + 1
    /\ UNCHANGED <<pureVars, adapterVars, now, pc, tasks, verifyOpt, verified, surviving,
                   immediate, delayed, k, results, resolved, timer, deadline, error,
                   unhandled, obsVars>>

\* Mutant: verify() is called without await, the loop goes on at once.
VerifyCallNoAwait ==
    /\ pc = "gate"
    /\ vi <= Len(tasks)
    /\ NeedsVerify(tasks[vi].adapter)
    /\ verifyCalls' = [verifyCalls EXCEPT ![tasks[vi].adapter] = @ + 1]
    /\ verifyInFlight' = verifyInFlight \cup {tasks[vi].adapter}
    /\ verified' = MapSet(verified, tasks[vi].adapter, TRUE)
    /\ vi' = vi + 1
    /\ UNCHANGED <<pureVars, adapterVars, now, pc, tasks, verifyOpt, surviving,
                   immediate, delayed, k, results, resolved, timer, deadline, error,
                   unhandled, verifyRet, pubCalls, pubState, pubAt, pubRet, schedAt>>

\* await task.adapter.verify(): the call is made and the loop suspends.
VerifyCall ==
    /\ pc = "gate"
    /\ vi <= Len(tasks)
    /\ NeedsVerify(tasks[vi].adapter)
    /\ verifyCalls' = [verifyCalls EXCEPT ![tasks[vi].adapter] = @ + 1]
    /\ verifyInFlight' = verifyInFlight \cup {tasks[vi].adapter}
    /\ pc' = "verifying"
    /\ UNCHANGED <<pureVars, adapterVars, now, tasks, verifyOpt, verified, vi, surviving,
                   immediate, delayed, k, results, resolved, timer, deadline, error,
                   unhandled, verifyRet, pubCalls, pubState, pubAt, pubRet, schedAt>>

\* What the try/catch around verify() stores: true when the call resolves
\* (whatever its value), false when it rejects.
VerifiedFlag(outcome) == outcome \notin {"throw", "notimplemented"}

\* verify() settles; the loop resumes.  Whatever verify() threw is caught; the
\* catch block reads task.adapter.id for its warning, and a getter that is not
\* overridden throws out of the catch block and out of the call.
VerifySettle(outcome) ==
    /\ pc = "verifying"
    /\ outcome \in VerifyOutcomes(tasks[vi].adapter)
    /\ verifyInFlight' = verifyInFlight \ {tasks[vi].adapter}
    /\ verifyRet' = [verifyRet EXCEPT ![tasks[vi].adapter] = outcome]
    /\ IF ~VerifiedFlag(outcome) /\ Missing(tasks[vi].adapter, "id")
       THEN /\ pc' = "thrown"
            /\ error' = Some(Failure("id", vi, tasks[vi].adapter))
            /\ UNCHANGED <<verified, vi>>
       ELSE /\ verified' = MapSet(verified, tasks[vi].adapter, VerifiedFlag(outcome))
            /\ vi' = vi + 1
            /\ pc' = "gate"
            /\ error' = error
    /\ UNCHANGED <<pureVars, adapterVars, now, tasks, verifyOpt, surviving, immediate,
                   delayed, k, results, resolved, timer, deadline, unhandled,
                   verifyCalls, pubCalls, pubState, pubAt, pubRet, schedAt>>

\* const failedAdapters = new Set(... filter(([, ok]) => !ok) ...)
FailedAdapters == {a \in DOMAIN verified : ~verified[a]}

\* tasks.filter((t) => !failedAdapters.has(t.adapter))
FilterFailed(seq) ==
    LET keep(i) == tasks[i].adapter \notin FailedAdapters
    IN  SelectSeq(seq, keep)

\* The gate loop is over: tasks of failed adapters are filtered out.
GateFilter ==
    /\ pc = "gate"
    /\ vi > Len(tasks)
    /\ surviving' = FilterFailed(surviving)
    /\ pc' = "partition"
    /\ UNCHANGED <<pureVars, adapterVars, now, tasks, verifyOpt, verified, vi, immediate,
                   delayed, k, results, resolved, timer, deadline, error, unhandled,
                   obsVars>>

\* tasks.filter((t) => t.delayMs === 0)
ImmediateOf(seq) ==
    LET isNow(i) == tasks[i].delayMs = 0
    IN  SelectSeq(seq, isNow)

\* tasks.filter((t) => t.delayMs > 0)
DelayedOf(seq) ==
    LET isLater(i) == tasks[i].delayMs > 0
    IN  SelectSeq(seq, isLater)

\* Group by delay: immediate first, then scheduled.
Partition ==
    /\ pc = "partition"
    /\ immediate' = ImmediateOf(surviving)
    /\ delayed' = DelayedOf(surviving)
    /\ k' = 1
    /\ pc' = "immediate"
    /\ UNCHANGED <<pureVars, adapterVars, now, tasks, verifyOpt, verified, vi, surviving,
                   results, resolved, timer, deadline, error, unhandled, obsVars>>

\* ------------------------------------------------------------ publishing

\* What a successful publish() of task t leaves in the adapter.  The post is
\* stored under the id made from Date.now() at the call.  (DummyAdapter.publish
\* has no await in it: its promise settles in the microtask after the call.)
PostsAfter(t, ret) ==
    IF tasks[t].adapter = "dummy" THEN MapSet(posts, ret.id, t) ELSE posts

MessageIdAfter(t) ==
    IF tasks[t].adapter = "telegram" THEN tgMessageId + 1 ELSE tgMessageId

\* Mutant: publish() is called without await, the loop goes on at once.
PublishCallNoAwait ==
    /\ pc = "immediate"
    /\ k <= Len(immediate)
    /\ pubCalls' = [pubCalls EXCEPT ![immediate[k]] = @ + 1]
    /\ pubState' = [pubState EXCEPT ![immediate[k]] = "inflight"]
    /\ pubAt' = [pubAt EXCEPT ![immediate[k]] = now]
    /\ k' = k + 1
    /\ UNCHANGED <<pureVars, adapterVars, now, pc, tasks, verifyOpt, verified, vi, surviving,
                   immediate, delayed, results, resolved, timer, deadline, error,
                   unhandled, verifyCalls, verifyInFlight, verifyRet, pubRet, schedAt>>

\* for (const task of immediate) { await task.adapter.publish(task.content)
PublishCall ==
    /\ pc = "immediate"
    /\ k <= Len(immediate)
    /\ pubCalls' = [pubCalls EXCEPT ![immediate[k]] = @ + 1]
    /\ pubState' = [pubState EXCEPT ![immediate[k]] = "inflight"]
    /\ pubAt' = [pubAt EXCEPT ![immediate[k]] = now]
    /\ pc' = "publishing"
    /\ UNCHANGED <<pureVars, adapterVars, now, tasks, verifyOpt, verified, vi, surviving,
                   immediate, delayed, k, results, resolved, timer, deadline, error,
                   unhandled, verifyCalls, verifyInFlight, verifyRet, pubRet, schedAt>>

\* Mutant: a rejected publish of an immediate task is noted and the loop goes
\* on with the next task.
PublishSettleCarryOn(ok) ==
    /\ pc = "publishing"
    /\ LET t == immediate[k]
           ret == PublishReturn(tasks[t].adapter, pubAt[t], tgMessageId + 1)
       IN  IF ok
           THEN /\ pubState' = [pubState EXCEPT ![t] = "ok"]
                /\ pubRet' = [pubRet EXCEPT ![t] = Some(ret)]
                /\ posts' = PostsAfter(t, ret)
                /\ tgMessageId' = MessageIdAfter(t)
                /\ results' = Append(results, MakeResult(ret, tasks[t]))
                /\ error' = error
           ELSE /\ pubState' = [pubState EXCEPT ![t] = "failed"]
                /\ error' = Some(Failure("publish", t, tasks[t].adapter))
                /\ UNCHANGED <<pubRet, posts, tgMessageId, results>>
    /\ k' = k + 1
    /\ pc' = "immediate"
    /\ UNCHANGED <<pureVars, unimplemented, rejectVerify, now, tasks, verifyOpt,
                   verified, vi, surviving, immediate, delayed, resolved, timer, deadline, unhandled,
                   verifyCalls, verifyInFlight, verifyRet, pubCalls, pubAt, schedAt>>

\* The publish of the immediate task settles: its result is pushed, or the
\* rejection leaves the loop and the call.  A publish() that is not overridden
\* only rejects; building the result reads task.adapter.id, and a getter that
\* is not overridden throws after the publish has been done.
PublishSettle(ok) ==
    /\ pc = "publishing"
    /\ Missing(tasks[immediate[k]].adapter, "publish") => ~ok
    /\ LET t == immediate[k]
           ret == PublishReturn(tasks[t].adapter, pubAt[t], tgMessageId + 1)
       IN  IF ok
           THEN /\ pubState' = [pubState EXCEPT ![t] = "ok"]
                /\ pubRet' = [pubRet EXCEPT ![t] = Some(ret)]
                /\ posts' = PostsAfter(t, ret)
                /\ tgMessageId' = MessageIdAfter(t)
                /\ IF Missing(tasks[t].adapter, "id")
                   THEN /\ pc' = "thrown"
                        /\ error' = Some(Failure("id", t, tasks[t].adapter))
                        /\ UNCHANGED <<results, k>>
                   ELSE /\ results' = Append(results, MakeResult(ret, tasks[t]))
                        /\ k' = k + 1
                        /\ pc' = "immediate"
                        /\ error' = error
           ELSE /\ pubState' = [pubState EXCEPT ![t] = "failed"]
                /\ pc' = "thrown"
                /\ error' = Some(Failure("publish", t, tasks[t].adapter))
                /\ UNCHANGED <<pubRet, posts, tgMessageId, results, k>>
    /\ UNCHANGED <<pureVars, unimplemented, rejectVerify, now, tasks, verifyOpt,
                   verified, vi, surviving, immediate, delayed, resolved, timer, deadline, unhandled,
                   verifyCalls, verifyInFlight, verifyRet, pubCalls, pubAt, schedAt>>

\* Math.min(task.delayMs, 50)
TimerDelay(d) == Min(d, TimerCap)

\* Mutant: the delayed lane is serialized, only its first timer is started.
ToScheduleFirstOnly == IF delayed = <<>> THEN {} ELSE {delayed[1]}

\* The tasks whose timer delayed.map(...) starts in this step.
ToSchedule == {delayed[i] : i \in 1..Len(delayed)}

\* Promise.all(delayed.map((task) => new Promise(... setTimeout(...)))): every
\* executor runs inside the map, so all timers are started in one step.
ScheduleDelayed ==
    /\ pc = "immediate"
    /\ k > Len(immediate)
    /\ timer' = [t \in DOMAIN timer |-> IF t \in ToSchedule THEN "pending" ELSE timer[t]]
    /\ schedAt' = [t \in DOMAIN schedAt |-> IF t \in ToSchedule THEN now ELSE schedAt[t]]
    /\ deadline' = [t \in DOMAIN deadline |->
                      IF t \in ToSchedule THEN now + TimerDelay(tasks[t].delayMs)
                      ELSE deadline[t]]
    /\ pc' = "joining"
    /\ UNCHANGED <<pureVars, adapterVars, now, tasks, verifyOpt, verified, vi, surviving,
                   immediate, delayed, k, results, resolved, error, unhandled,
                   verifyCalls, verifyInFlight, verifyRet, pubCalls, pubState, pubAt,
                   pubRet>>

\* The timers that have been started and have not fired.
PendingTimers == {t \in TaskIds : timer[t] = "pending"}

\* Time passes until the next timer is due.  The event loop runs the callbacks
\* of the timers that are due before it waits again, so the clock moves on only
\* when no pending timer is due.
Tick ==
    /\ pc = "joining"
    /\ PendingTimers # {}
    /\ \A t \in PendingTimers : deadline[t] > now
    /\ \E t \in PendingTimers :
          /\ \A u \in PendingTimers : deadline[t] <= deadline[u]
          /\ now' = deadline[t]
    /\ UNCHANGED <<pureVars, adapterVars, callVars, obsVars>>

\* The timer callback of task t runs: it calls publish and suspends.
TimerFire(t) ==
    /\ pc = "joining"
    /\ timer[t] = "pending"
    /\ now >= deadline[t]
    /\ timer' = [timer EXCEPT ![t] = "fired"]
    /\ pubCalls' = [pubCalls EXCEPT ![t] = @ + 1]
    /\ pubState' = [pubState EXCEPT ![t] = "inflight"]
    /\ pubAt' = [pubAt EXCEPT ![t] = now]
    /\ UNCHANGED <<pureVars, adapterVars, now, pc, tasks, verifyOpt, verified, vi, surviving,
                   immediate, delayed, k, results, resolved, deadline, error,
                   unhandled, verifyCalls, verifyInFlight, verifyRet, pubRet, schedAt>>

\* The host's answer to a rejection nobody handles, given as soon as the
\* microtasks of the callback have run: Node (15 and later, by default) ends the
\* process; other hosts only warn, and the call goes on.
OnUnhandledRejection == {"joining", "crashed"}

\* The publish of delayed task t settles inside its timer callback: resolve(...)
\* is called with the result, or the callback's own promise rejects, which
\* nobody awaits: resolve is never called and the task's promise stays pending.
DelayedSettle(t, ok) ==
    /\ pc = "joining"
    /\ timer[t] = "fired"
    /\ pubState[t] = "inflight"
    /\ Missing(tasks[t].adapter, "publish") => ~ok
    /\ LET ret == PublishReturn(tasks[t].adapter, pubAt[t], tgMessageId + 1)
       IN  IF ok
           THEN /\ pubState' = [pubState EXCEPT ![t] = "ok"]
                /\ pubRet' = [pubRet EXCEPT ![t] = Some(ret)]
                /\ posts' = PostsAfter(t, ret)
                /\ tgMessageId' = MessageIdAfter(t)
                /\ IF Missing(tasks[t].adapter, "id")
                   THEN /\ unhandled' = unhandled \cup {t}
                        /\ pc' \in OnUnhandledRejection
                        /\ UNCHANGED resolved
                   ELSE /\ resolved' = [resolved EXCEPT ![t] =
                                           Some(MakeResult(ret, tasks[t]))]
                        /\ UNCHANGED <<unhandled, pc>>
           ELSE /\ pubState' = [pubState EXCEPT ![t] = "failed"]
                /\ unhandled' = unhandled \cup {t}
                /\ pc' \in OnUnhandledRejection
                /\ UNCHANGED <<pubRet, posts, tgMessageId, resolved>>
    /\ UNCHANGED <<pureVars, unimplemented, rejectVerify, now, tasks, verifyOpt,
                   verified, vi, surviving, immediate, delayed, k, results, timer, deadline, error,
                   verifyCalls, verifyInFlight, verifyRet, pubCalls, pubAt, schedAt>>

\* Mutant: the values are collected in the opposite order.
DelayedResultsReversed ==
    [i \in 1..Len(delayed) |-> resolved[delayed[Len(delayed) + 1 - i]][1]]

\* The array Promise.all resolves with: one value per input promise, in the
\* order of the input array.
DelayedResults == [i \in 1..Len(delayed) |-> resolved[delayed[i]][1]]

\* Every promise of the delayed lane has resolved: Promise.all resolves,
\* results.push(...delayedResults), return results.
Join ==
    /\ pc = "joining"
    /\ \A i \in 1..Len(delayed) : resolved[delayed[i]] # Nothing
    /\ results' = results \o DelayedResults
    /\ pc' = "returned"
    /\ UNCHANGED <<pureVars, adapterVars, now, tasks, verifyOpt, verified, vi, surviving,
                   immediate, delayed, k, resolved, timer, deadline, error, unhandled,
                   obsVars>>

\* ------------------------------------------------------------ specification

\* The caller hands a task list and its options to executeTasks.
Call ==
    /\ pc = "idle"
    /\ \E ts \in TaskLists, v \in BOOLEAN : ExecuteTasks(ts, v)

\* The steps of a call that is under way.
EngineSteps ==
    \/ GateSkip
    \/ VerifyCall
    \/ \E o \in {"true", "false", "throw", "notimplemented"} : VerifySettle(o)
    \/ GateFilter
    \/ Partition
    \/ PublishCall
    \/ \E ok \in BOOLEAN : PublishSettle(ok)
    \/ ScheduleDelayed
    \/ Tick
    \/ \E t \in TaskIds : TimerFire(t)
    \/ \E t \in TaskIds, ok \in BOOLEAN : DelayedSettle(t, ok)
    \/ Join

Next == Call \/ EngineSteps

Spec == Init /\ [][Next]_vars

\* The event loop runs every callback that is ready, and every verify() and
\* publish() call settles.
FairSpec == Spec /\ WF_vars(Next)

\* ------------------------------------------------------------ user adapters

\* Delays of the tasks handed over together with an adapter of the user's.
CustomDelays == {0, 30}

CustomTaskLists ==
    UNION {{[i \in 1..n |-> Task(f[i][1], f[i][2], i)] :
              f \in [1..n -> {CustomAdapter, "dummy"} \X CustomDelays]}
           : n \in 0..MaxTasks}

\* The custom adapter's class overrides only some of the required members.
CustomInit ==
    /\ input = Nothing
    /\ output = Nothing
    /\ unimplemented \in SUBSET RequiredMembers
    /\ rejectVerify \in BOOLEAN
    /\ EvalIdle
    /\ EngineInit

CustomCall ==
    /\ pc = "idle"
    /\ \E ts \in CustomTaskLists, v \in BOOLEAN : ExecuteTasks(ts, v)

CustomNext == CustomCall \/ EngineSteps

CustomSpec == CustomInit /\ [][CustomNext]_vars

\* ------------------------------------------------------------ parseDelay

\* Strings are sequences of characters, so that trimming and the regular
\* expressions work on what the string holds.
DigitValue ==
    [c \in {"0", "1", "2", "3", "4", "5", "6", "7", "8", "9"} |->
        CASE c = "0" -> 0 [] c = "1" -> 1 [] c = "2" -> 2 [] c = "3" -> 3
          [] c = "4" -> 4 [] c = "5" -> 5 [] c = "6" -> 6 [] c = "7" -> 7
          [] c = "8" -> 8 [] c = "9" -> 9]

\* \d
IsDigit(c) == c \in DOMAIN DigitValue

\* \s, and the characters String.prototype.trim() removes
WhiteSpace == {" ", "\t", "\n"}

RECURSIVE TrimStart(_)
TrimStart(s) ==
    IF s # <<>> /\ Head(s) \in WhiteSpace THEN TrimStart(Tail(s)) ELSE s

RECURSIVE TrimEnd(_)
TrimEnd(s) ==
    IF s # <<>> /\ s[Len(s)] \in WhiteSpace
    THEN TrimEnd(SubSeq(s, 1, Len(s) - 1)) ELSE s

\* String(delay).trim()
Trim(s) == TrimEnd(TrimStart(s))

\* parseInt(digits, 10) of a string of decimal digits
RECURSIVE ParseInt(_)
ParseInt(s) ==
    IF s = <<>> THEN 0
    ELSE 10 * ParseInt(SubSeq(s, 1, Len(s) - 1)) + DigitValue[s[Len(s)]]

\* The number of characters a greedy \d+ (or \s+) takes at the head of s.
RECURSIVE Leading(_, _)
Leading(s, class) ==
    IF s # <<>> /\ Head(s) \in class THEN 1 + Leading(Tail(s), class) ELSE 0

\* s without its first n characters
Drop(s, n) == SubSeq(s, n + 1, Len(s))

\* (\d{2}):(\d{2})$ : the groups as numbers, or nothing
TimeGroups(s) ==
    IF /\ Len(s) = 5
       /\ IsDigit(s[1]) /\ IsDigit(s[2]) /\ s[3] = ":" /\ IsDigit(s[4]) /\ IsDigit(s[5])
    THEN Some([hours |-> ParseInt(SubSeq(s, 1, 2)), minutes |-> ParseInt(SubSeq(s, 4, 5))])
    ELSE Nothing

\* \s+(\d{2}):(\d{2})$
SpacedTimeGroups(s) ==
    IF Leading(s, WhiteSpace) >= 1 THEN TimeGroups(Drop(s, Leading(s, WhiteSpace)))
    ELSE Nothing

\* str.match(/^(\d+)(m|h|d)$/): the groups, or nothing
DurationMatch(str) ==
    LET n == Leading(str, DOMAIN DigitValue)
    IN  IF n >= 1 /\ Len(str) = n + 1 /\ str[n + 1] \in {"m", "h", "d"}
        THEN Some([value |-> ParseInt(SubSeq(str, 1, n)), unit |-> str[n + 1]])
        ELSE Nothing

\* str.match(/^(\d+)d\s+(\d{2}):(\d{2})$/)
DurationTimeMatch(str) ==
    LET n == Leading(str, DOMAIN DigitValue)
        time == SpacedTimeGroups(Drop(str, n + 1))
    IN  IF n >= 1 /\ Len(str) > n /\ str[n + 1] = "d" /\ time # Nothing
        THEN Some([days |-> ParseInt(SubSeq(str, 1, n)),
                   hours |-> time[1].hours, minutes |-> time[1].minutes])
        ELSE Nothing

\* const dayNames = ['Sun', 'Mon', 'Tue', 'Wed', 'Thu', 'Fri', 'Sat'], from 0
DayNames ==
    [d \in 0..6 |->
        CASE d = 0 -> <<"S", "u", "n">> [] d = 1 -> <<"M", "o", "n">>
          [] d = 2 -> <<"T", "u", "e">> [] d = 3 -> <<"W", "e", "d">>
          [] d = 4 -> <<"T", "h", "u">> [] d = 5 -> <<"F", "r", "i">>
          [] d = 6 -> <<"S", "a", "t">>]

\* str.match(/^(Mon|Tue|Wed|Thu|Fri|Sat|Sun)\s+(\d{2}):(\d{2})$/), with
\* dayNames.indexOf of the first group
WeekdayMatch(str) ==
    LET time == SpacedTimeGroups(Drop(str, 3))
    IN  IF /\ Len(str) > 3
           /\ \E d \in DOMAIN DayNames : SubSeq(str, 1, 3) = DayNames[d]
           /\ time # Nothing
        THEN Some([targetDay |-> CHOOSE d \in DOMAIN DayNames : SubSeq(str, 1, 3) = DayNames[d],
                   targetH |-> time[1].hours, targetM |-> time[1].minutes])
        ELSE Nothing

\* The argument of parseDelay: a number, a string, null or undefined.
NumberValue(n) == [kind |-> "number", num |-> n, chars |-> <<>>]
StringValue(s) == [kind |-> "string", num |-> 0, chars |-> s]
NullValue == [kind |-> "null", num |-> 0, chars |-> <<>>]
UndefinedValue == [kind |-> "undefined", num |-> 0, chars |-> <<>>]

\* How a function call ends: with a value, or with an Error and its message.
Returned(v) == [threw |-> FALSE, value |-> v, message |-> <<>>]
Threw(msg) == [threw |-> TRUE, value |-> 0, message |-> msg]

\* new Date() in local time (a zone without daylight saving): the day of the
\* week, from Sunday = 0, and the milliseconds since that day's midnight.
\* target.setDate(getDate() + daysAhead); target.setHours(h, m, 0, 0);
\* target.getTime() - now.getTime()
WeekdayDelay(m, clock) ==
    LET daysAhead == IF m.targetDay - clock.day <= 0
                     THEN m.targetDay - clock.day + 7
                     ELSE m.targetDay - clock.day
    IN  (daysAhead * 24 * 60 * 60 + m.targetH * 60 * 60 + m.targetM * 60) * 1000
            - clock.ms

\* Mutant: the literal goes into the error message, and a number comes out.
InvalidDelayIgnored(delay) == Returned(0)

\* throw new Error(`Invalid delay format: '${delay}'`)
InvalidDelay(delay) == Threw(<<"Invalid delay format: '">> \o delay.chars \o <<"'">>)

\* Mutant: the hours of '<N>d HH:MM' are left out of the sum.
DurationTimeDaysOnly(m) == (m.days * 24 * 60 * 60 + m.minutes * 60) * 1000

\* (days * 24 * 60 * 60 + hours * 60 * 60 + minutes * 60) * 1000
DurationTime(m) ==
    (m.days * 24 * 60 * 60 + m.hours * 60 * 60 + m.minutes * 60) * 1000

\* value * 60 * 1000, value * 60 * 60 * 1000, value * 24 * 60 * 60 * 1000
Duration(m) ==
    CASE m.unit = "m" -> m.value * 60 * 1000
      [] m.unit = "h" -> m.value * 60 * 60 * 1000
      [] m.unit = "d" -> m.value * 24 * 60 * 60 * 1000

\* parseDelay(delay), called when the clock shows `clock`
ParseDelay(delay, clock) ==
    IF \/ (delay.kind = "number" /\ delay.num = 0)
       \/ (delay.kind = "string" /\ delay.chars = <<"0">>)
       \/ delay.kind \in {"null", "undefined"}
    THEN Returned(0)
    ELSE IF delay.kind = "number" THEN Returned(delay.num)
    ELSE LET str == Trim(delay.chars)
         IN  IF DurationMatch(str) # Nothing
             THEN Returned(Duration(DurationMatch(str)[1]))
             ELSE IF DurationTimeMatch(str) # Nothing
             THEN Returned(DurationTime(DurationTimeMatch(str)[1]))
             ELSE IF WeekdayMatch(str) # Nothing
             THEN Returned(WeekdayDelay(WeekdayMatch(str)[1], clock))
             ELSE InvalidDelay(delay)

\* ------------------------------------------------------------ parseDelay: inputs

DigitChars == <<"0", "1", "2", "3", "4", "5", "6", "7", "8", "9">>

\* String(n), for a natural number n
RECURSIVE Decimal(_)
Decimal(n) ==
    IF n < 10 THEN <<DigitChars[n + 1]>>
    ELSE Decimal(n \div 10) \o <<DigitChars[(n % 10) + 1]>>

\* n written with two digits (n < 100)
TwoDigits(n) == IF n < 10 THEN <<"0">> \o Decimal(n) ELSE Decimal(n)

\* The N, HH and MM the literals are made of; 99 is a two-digit group that is
\* no hour and no minute of a day.  (The counts are such that every result
\* stays below 2^31: the code computes in doubles, which are exact far beyond.)
Counts == {0, 1, 2, 7, 20}
MinuteCounts == {100, 1440}
Hours == {0, 9, 10, 23, 99}
Minutes == {0, 30, 59}

CountLiterals == {Decimal(n) : n \in Counts} \cup {<<"0", "7">>}
UnitLiterals == {"m", "h", "d", "x", "s", "M"}
TimeLiterals ==
    {TwoDigits(h) \o <<":">> \o TwoDigits(m) : h \in Hours, m \in Minutes}
        \cup {<<"9", ":", "0", "0">>, <<"0", "9", "0", "0">>, <<"0", "9", ":", "0">>}
GapLiterals == {<<" ">>, <<" ", " ">>, <<>>}
DayLiterals ==
    {DayNames[d] : d \in DOMAIN DayNames}
        \cup {<<"m", "o", "n">>, <<"M", "o", "n", "d", "a", "y">>}

\* Literals that follow none of the schemes above.
OddLiterals ==
    {<<"t", "o", "m", "o", "r", "r", "o", "w">>, <<"5", "x">>, <<>>, <<" ">>,
     <<"0", "0">>, <<" ", "0">>, <<"0", " ">>, <<" ", "3", "0", "m", " ">>,
     <<"-", "5", "m">>, <<"1", ".", "5", "h">>, <<"3", "0">>, <<"m">>,
     <<"3", "0", "m", " ", "0", "9", ":", "0", "0">>, <<"M", "o", "n">>,
     <<"1", "0", ":", "0", "0">>,
     <<"1", "d", " ", "0", "9", ":", "0", "0", " ", "x">>,
     <<"3", "0", " ", "m">>, <<"1", "d", "\t", "0", "9", ":", "0", "0">>,
     <<"M", "o", "n", "\n", "1", "0", ":", "0", "0">>,
     <<"T", "u", "e", " ", "1", "0", ":", "0", "0", "p", "m">>}

DelayLiterals ==
    {n \o <<u>> : n \in CountLiterals, u \in UnitLiterals}
        \cup {Decimal(n) \o <<"m">> : n \in MinuteCounts}
        \cup {n \o <<"d">> \o g \o t : n \in CountLiterals, g \in GapLiterals, t \in TimeLiterals}
        \cup {d \o g \o t : d \in DayLiterals, g \in GapLiterals, t \in TimeLiterals}
        \cup {<<"0">>}
        \cup OddLiterals

\* Bare numbers handed to parseDelay.
DelayNumbers == {-5, 0, 1, 5000}

DelayValues ==
    {StringValue(s) : s \in DelayLiterals}
        \cup {NumberValue(n) : n \in DelayNumbers}
        \cup {NullValue, UndefinedValue}

\* The local times at which parseDelay is called: midnight, 09:00, 10:00 and
\* the last millisecond of the day, on each day of the week.
ClockTimes == {0, 9 * 60 * 60 * 1000, 10 * 60 * 60 * 1000, 24 * 60 * 60 * 1000 - 1}
Clocks == [day : 0..6, ms : ClockTimes]

DelayInit ==
    /\ input \in [delay : DelayValues, clock : Clocks]
    /\ output = Nothing
    /\ unimplemented = {}
    /\ rejectVerify = FALSE
    /\ EvalIdle
    /\ EngineInit

\* parseDelay is applied to the argument.
ParseDelayCall ==
    /\ output = Nothing
    /\ output' = Some(ParseDelay(input.delay, input.clock))
    /\ UNCHANGED <<input, evalVars, adapterVars, now, callVars, obsVars>>

DelayNext == ParseDelayCall

DelaySpec == DelayInit /\ [][DelayNext]_vars

\* ------------------------------------------------------------ content

\* A string (a sequence of characters), an array or a boolean that may be
\* absent is Nothing or Some(v).  JavaScript takes an absent value and the
\* empty string for false, every other string and every array for true.
Truthy(v) == v # Nothing /\ v[1] # <<>>

\* Content as the caller hands it over (SocialAdapterContent's fields).
Content(text, tags, type, lang, photo, video, document, audio) ==
    [text |-> text, tags |-> tags, type |-> type, lang |-> lang,
     photo |-> photo, video |-> video, document |-> document, audio |-> audio]

\* ------------------------------------------------------------ validate

\* Mutant: text counts as it stands, white space included.
HasTextUntrimmed(raw) == Truthy(raw.text)

\* const hasText = raw.text && raw.text.trim().length > 0
HasText(raw) == Truthy(raw.text) /\ Len(Trim(raw.text[1])) > 0

\* const hasMedia = !!(raw.photo || raw.video || raw.document || raw.audio)
HasMediaField(raw) ==
    Truthy(raw.photo) \/ Truthy(raw.video) \/ Truthy(raw.document) \/ Truthy(raw.audio)

\* errors.push('content must have at least text or one media field ...')
ValidationErrors(raw) ==
    IF ~HasText(raw) /\ ~HasMediaField(raw)
    THEN <<"content must have at least text or one media field (photo, video, document, audio)">>
    ELSE <<>>

\* SocialAdapterContent.validate(raw): { valid: errors.length === 0, errors }
Validate(raw) ==
    [valid |-> Len(ValidationErrors(raw)) = 0, errors |-> ValidationErrors(raw)]

\* The texts and media references handed to validate: absent, empty, white
\* space only, and with something in them.
Texts ==
    {Nothing, Some(<<>>), Some(<<" ">>), Some(<<" ", "\t", "\n">>),
     Some(<<"H", "i">>), Some(<<" ", "a", " ">>)}
References == {Nothing, Some(<<>>), Some(<<"u">>)}

ValidateInit ==
    /\ input \in {Content(t, Nothing, Nothing, Nothing, p, v, d, a) :
                    t \in Texts, p \in References, v \in References,
                    d \in References, a \in References}
    /\ output = Nothing
    /\ unimplemented = {}
    /\ rejectVerify = FALSE
    /\ EvalIdle
    /\ EngineInit

\* validate is applied to the content.
ValidateCall ==
    /\ output = Nothing
    /\ output' = Some(Validate(input))
    /\ UNCHANGED <<input, evalVars, adapterVars, now, callVars, obsVars>>

ValidateNext == ValidateCall

ValidateSpec == ValidateInit /\ [][ValidateNext]_vars

\* ------------------------------------------------------------ matchesConditions

\* conditions.tags: an array of tags, or one tag that is not in an array.
TagArray(items) == [isArray |-> TRUE, items |-> items]
SingleTag(tag) == [isArray |-> FALSE, items |-> <<tag>>]

\* The `if` block of a rule.
Conditions(tags, type, lang, hasMedia) ==
    [given |-> TRUE, tags |-> tags, type |-> type, lang |-> lang, hasMedia |-> hasMedia]

\* A rule without an `if` block.
NoConditions ==
    [given |-> FALSE, tags |-> Nothing, type |-> Nothing, lang |-> Nothing,
     hasMedia |-> Nothing]

\* Object.keys(conditions).length === 0
NoKeys(c) ==
    c.tags = Nothing /\ c.type = Nothing /\ c.lang = Nothing /\ c.hasMedia = Nothing

\* array.includes(x)
Includes(array, x) == \E i \in 1..Len(array) : array[i] = x

\* Array.isArray(conditions.tags) ? conditions.tags : [conditions.tags]
Required(tags) == IF tags.isArray THEN tags.items ELSE <<tags.items[1]>>

\* content.tags || []
ContentTags(content) == IF content.tags # Nothing THEN content.tags[1] ELSE <<>>

\* required.some((tag) => contentTags.includes(tag))
SomeTagIncluded(content, tags) ==
    \E i \in 1..Len(Required(tags)) : Includes(ContentTags(content), Required(tags)[i])

\* const hasMedia = !!(content.photo || content.document || content.video)
HasMedia(content) ==
    Truthy(content.photo) \/ Truthy(content.document) \/ Truthy(content.video)

\* matchesConditions(content, conditions)
MatchesConditions(content, conditions) ==
    IF ~conditions.given \/ NoKeys(conditions) THEN TRUE
    ELSE IF conditions.tags # Nothing /\ ~SomeTagIncluded(content, conditions.tags[1])
    THEN FALSE
    ELSE IF Truthy(conditions.type) /\ content.type # conditions.type THEN FALSE
    ELSE IF Truthy(conditions.lang) /\ content.lang # conditions.lang THEN FALSE
    ELSE IF conditions.hasMedia # Nothing /\ conditions.hasMedia[1] # HasMedia(content)
    THEN FALSE
    ELSE TRUE

\* Tags, types and languages of contents and rules.
Public == <<"p", "u", "b", "l", "i", "c">>
Private == <<"p", "r", "i", "v", "a", "t", "e">>
Tech == <<"t", "e", "c", "h">>
Post == <<"p", "o", "s", "t">>
Article == <<"a", "r", "t", "i", "c", "l", "e">>
English == <<"e", "n">>
Ukrainian == <<"u", "k">>

ContentTagLists ==
    {Nothing, Some(<<>>), Some(<<Public>>), Some(<<Public, Tech>>), Some(<<Private>>)}
MediaReferences == {Nothing, Some(<<"u">>)}

MatchContents ==
    {Content(Some(<<"H", "i">>), tags, type, lang, p, v, d, a) :
        tags \in ContentTagLists,
        type \in {Nothing, Some(Post), Some(Article)},
        lang \in {Nothing, Some(English), Some(Ukrainian)},
        p \in MediaReferences, v \in MediaReferences,
        d \in MediaReferences, a \in MediaReferences}

RuleTagLists ==
    {Nothing, Some(TagArray(<<>>)), Some(TagArray(<<Public>>)),
     Some(TagArray(<<Private, Tech>>)), Some(SingleTag(Public))}

MatchConditions ==
    {Conditions(tags, type, lang, hasMedia) :
        tags \in RuleTagLists,
        type \in {Nothing, Some(Post)},
        lang \in {Nothing, Some(English)},
        hasMedia \in {Nothing, Some(TRUE), Some(FALSE)}}
        \cup {NoConditions}

MatchInit ==
    /\ input \in [content : MatchContents, conditions : MatchConditions]
    /\ output = Nothing
    /\ unimplemented = {}
    /\ rejectVerify = FALSE
    /\ EvalIdle
    /\ EngineInit

\* matchesConditions is applied to the content and the conditions.
MatchesConditionsCall ==
    /\ output = Nothing
    /\ output' = Some(MatchesConditions(input.content, input.conditions))
    /\ UNCHANGED <<input, evalVars, adapterVars, now, callVars, obsVars>>

MatchNext == MatchesConditionsCall

MatchSpec == MatchInit /\ [][MatchNext]_vars

\* ------------------------------------------------------------ evaluateRules

\* Most rules in a rule list.
MaxRules == 2

\* References to the objects of the heap: the caller's content, its tags
\* array, its options bag, and the content object of the n-th task.
ContentRef == <<"content", 0>>
TagsRef == <<"tags", 0>>
OptionsRef == <<"options", 0>>
TaskContentRef(n) == <<"task", n>>

\* The caller's content object: strings are held by value, the tags array and
\* the options bag by reference.
ContentObject(c, options) ==
    [text |-> c.text, type |-> c.type, lang |-> c.lang, photo |-> c.photo,
     video |-> c.video, document |-> c.document, audio |-> c.audio,
     tags |-> IF c.tags = Nothing THEN Nothing ELSE Some(TagsRef),
     options |-> IF options = Nothing THEN Nothing ELSE Some(OptionsRef)]

\* The objects the caller has made when it calls evaluateRules.
CallerHeap(c, options) ==
    [r \in {ContentRef} \cup (IF c.tags = Nothing THEN {} ELSE {TagsRef})
                        \cup (IF options = Nothing THEN {} ELSE {OptionsRef}) |->
        IF r = ContentRef THEN ContentObject(c, options)
        ELSE IF r = TagsRef THEN c.tags[1]
        ELSE options[1]]

\* The content read through reference ref: its fields, with the tags array
\* looked up.
ContentAt(h, ref) ==
    Content(h[ref].text,
            IF h[ref].tags = Nothing THEN Nothing ELSE Some(h[h[ref].tags[1]]),
            h[ref].type, h[ref].lang, h[ref].photo, h[ref].video, h[ref].document,
            h[ref].audio)

\* { ...content }: a new object with the same field values, references included
SpreadClone(h, ref, new) == [r \in DOMAIN h \cup {new} |-> IF r = new THEN h[ref] ELSE h[r]]

\* One destination of a rule: { adapter, delay?, channel? }
Target(adapter, delay, channel) ==
    [adapter |-> adapter, delay |-> delay, channel |-> channel]

\* A rule: { name, if, publish }
Rule(i, cond, publish) == [name |-> RuleName(i), cond |-> cond, publish |-> publish]

\* adapters.get(id): the registered adapter, or nothing
AdapterOf(registry, id) == IF id \in registry THEN Some(id) ELSE Nothing

\* target.channel || null
ChannelOf(target) == IF Truthy(target.channel) THEN target.channel ELSE Nothing

\* { adapter, content: { ...content }, delayMs, channel, ruleName }
RuleTask(adapter, contentRef, delayMs, channel, ruleName) ==
    [adapter |-> adapter, content |-> contentRef, delayMs |-> delayMs,
     channel |-> channel, ruleName |-> ruleName]

\* new SocialAdapterValidationError(validation.errors)
ValidationError(errors) ==
    [name |-> "SocialAdapterValidationError", errors |-> errors, message |-> <<>>,
     at |-> <<0, 0>>]

\* The Error parseDelay threw, met at destination t of rule r.
DelayError(message, r, t) ==
    [name |-> "Error", errors |-> <<>>, message |-> message, at |-> <<r, t>>]

\* Mutant: the rules are evaluated without validating the content.
EvaluateRulesUnvalidated ==
    /\ evalPc = "idle"
    /\ heap' = CallerHeap(input.content, input.options)
    /\ evalPc' = "rules"
    /\ UNCHANGED <<input, output, ruleIdx, targetIdx, evalTasks, taskOrigin, evalError,
                   evalObs, mutatedVia, adapterVars, now, callVars, obsVars>>

\* evaluateRules(content, rules, adapters): the content is validated first;
\* invalid content is thrown out before const tasks = [].
EvaluateRules ==
    /\ evalPc = "idle"
    /\ heap' = CallerHeap(input.content, input.options)
    /\ evalObs' = [evalObs EXCEPT !.validated = TRUE]
    /\ LET validation == Validate(ContentAt(heap', ContentRef))
       IN  IF ~validation.valid
           THEN /\ evalPc' = "thrown"
                /\ evalError' = Some(ValidationError(validation.errors))
           ELSE /\ evalPc' = "rules"
                /\ evalError' = evalError
    /\ UNCHANGED <<input, output, ruleIdx, targetIdx, evalTasks, taskOrigin, mutatedVia,
                   adapterVars, now, callVars, obsVars>>

\* for (const rule of rules) { if (!matchesConditions(content, rule.if)) continue
NextRule ==
    /\ evalPc = "rules"
    /\ ruleIdx <= Len(input.rules)
    /\ evalObs' = [evalObs EXCEPT !.matched = @ + 1]
    /\ IF MatchesConditions(ContentAt(heap, ContentRef), input.rules[ruleIdx].cond)
       THEN evalPc' = "targets" /\ targetIdx' = 1 /\ ruleIdx' = ruleIdx
       ELSE evalPc' = "rules" /\ targetIdx' = targetIdx /\ ruleIdx' = ruleIdx + 1
    /\ UNCHANGED <<input, output, heap, evalTasks, taskOrigin, evalError, mutatedVia,
                   adapterVars, now, callVars, obsVars>>

\* Mutant: a destination whose adapter is not registered ends the rule's loop.
NextTargetBreaking ==
    /\ evalPc = "targets"
    /\ targetIdx <= Len(input.rules[ruleIdx].publish)
    /\ LET target == input.rules[ruleIdx].publish[targetIdx]
           adapter == AdapterOf(input.registry, target.adapter)
           delayMs == ParseDelay(target.delay, input.clock)
       IN  /\ adapter = Nothing \/ ~delayMs.threw
           /\ IF adapter = Nothing
              THEN /\ targetIdx' = Len(input.rules[ruleIdx].publish) + 1
                   /\ evalObs' = [evalObs EXCEPT !.lookups = @ + 1,
                                                 !.warned = @ \cup {<<ruleIdx, targetIdx>>}]
                   /\ UNCHANGED <<heap, evalTasks, taskOrigin>>
              ELSE /\ targetIdx' = targetIdx + 1
                   /\ evalObs' = [evalObs EXCEPT !.lookups = @ + 1, !.parsed = @ + 1]
                   /\ heap' = SpreadClone(heap, ContentRef, TaskContentRef(Len(evalTasks) + 1))
                   /\ evalTasks' = Append(evalTasks,
                         RuleTask(adapter[1], TaskContentRef(Len(evalTasks) + 1),
                                  delayMs.value, ChannelOf(target),
                                  input.rules[ruleIdx].name))
                   /\ taskOrigin' = Append(taskOrigin, <<ruleIdx, targetIdx>>)
    /\ UNCHANGED <<input, output, evalPc, ruleIdx, evalError, mutatedVia,
                   adapterVars, now, callVars, obsVars>>

\* Mutant: a destination whose delay does not parse is left out and the loop
\* goes on.
NextTargetKeepingOn ==
    /\ evalPc = "targets"
    /\ targetIdx <= Len(input.rules[ruleIdx].publish)
    /\ LET target == input.rules[ruleIdx].publish[targetIdx]
           adapter == AdapterOf(input.registry, target.adapter)
           delayMs == ParseDelay(target.delay, input.clock)
       IN  IF adapter = Nothing
           THEN /\ evalObs' = [evalObs EXCEPT !.lookups = @ + 1,
                                              !.warned = @ \cup {<<ruleIdx, targetIdx>>}]
                /\ UNCHANGED <<heap, evalTasks, taskOrigin>>
           ELSE IF delayMs.threw
           THEN /\ evalObs' = [evalObs EXCEPT !.lookups = @ + 1, !.parsed = @ + 1]
                /\ UNCHANGED <<heap, evalTasks, taskOrigin>>
           ELSE /\ evalObs' = [evalObs EXCEPT !.lookups = @ + 1, !.parsed = @ + 1]
                /\ heap' = SpreadClone(heap, ContentRef, TaskContentRef(Len(evalTasks) + 1))
                /\ evalTasks' = Append(evalTasks,
                      RuleTask(adapter[1], TaskContentRef(Len(evalTasks) + 1),
                               delayMs.value, ChannelOf(target),
                               input.rules[ruleIdx].name))
                /\ taskOrigin' = Append(taskOrigin, <<ruleIdx, targetIdx>>)
    /\ targetIdx' = targetIdx + 1
    /\ UNCHANGED <<input, output, evalPc, ruleIdx, evalError, mutatedVia,
                   adapterVars, now, callVars, obsVars>>

\* for (const target of rule.publish): the adapter is looked up; an unknown
\* one is warned about and skipped; else the delay is parsed (which may throw
\* out of evaluateRules) and the task is pushed.
NextTarget ==
    /\ evalPc = "targets"
    /\ targetIdx <= Len(input.rules[ruleIdx].publish)
    /\ LET target == input.rules[ruleIdx].publish[targetIdx]
           adapter == AdapterOf(input.registry, target.adapter)
           delayMs == ParseDelay(target.delay, input.clock)
       IN  IF adapter = Nothing
           THEN /\ targetIdx' = targetIdx + 1
                /\ evalObs' = [evalObs EXCEPT !.lookups = @ + 1,
                                              !.warned = @ \cup {<<ruleIdx, targetIdx>>}]
                /\ UNCHANGED <<heap, evalTasks, taskOrigin, evalPc, evalError>>
           ELSE IF delayMs.threw
           THEN /\ evalPc' = "thrown"
                /\ evalError' = Some(DelayError(delayMs.message, ruleIdx, targetIdx))
                /\ evalObs' = [evalObs EXCEPT !.lookups = @ + 1, !.parsed = @ + 1]
                /\ UNCHANGED <<heap, evalTasks, taskOrigin, targetIdx>>
           ELSE /\ targetIdx' = targetIdx + 1
                /\ evalObs' = [evalObs EXCEPT !.lookups = @ + 1, !.parsed = @ + 1]
                /\ heap' = SpreadClone(heap, ContentRef, TaskContentRef(Len(evalTasks) + 1))
                /\ evalTasks' = Append(evalTasks,
                      RuleTask(adapter[1], TaskContentRef(Len(evalTasks) + 1),
                               delayMs.value, ChannelOf(target),
                               input.rules[ruleIdx].name))
                /\ taskOrigin' = Append(taskOrigin, <<ruleIdx, targetIdx>>)
                /\ UNCHANGED <<evalPc, evalError>>
    /\ UNCHANGED <<input, output, ruleIdx, mutatedVia, adapterVars, now, callVars, obsVars>>

\* The loop over rule.publish is over: on to the next rule.
TargetsDone ==
    /\ evalPc = "targets"
    /\ targetIdx > Len(input.rules[ruleIdx].publish)
    /\ ruleIdx' = ruleIdx + 1
    /\ evalPc' = "rules"
    /\ UNCHANGED <<input, output, heap, targetIdx, evalTasks, taskOrigin, evalError,
                   evalObs, mutatedVia, adapterVars, now, callVars, obsVars>>

\* return tasks
ReturnedTasks == evalTasks

\* The loop over the rules is over: the tasks are returned to the caller.
ReturnTasks ==
    /\ evalPc = "rules"
    /\ ruleIdx > Len(input.rules)
    /\ evalPc' = "returned"
    /\ output' = Some(ReturnedTasks)
    /\ UNCHANGED <<input, heap, ruleIdx, targetIdx, evalTasks, taskOrigin, evalError,
                   evalObs, mutatedVia, adapterVars, now, callVars, obsVars>>

\* Whoever holds task n (the caller, or the adapter publish() hands
\* task.content to) writes through its content: to a top-level field, to the
\* tags array, or to the options bag.
WriteThrough(n, kind) ==
    /\ evalPc = "returned"
    /\ mutatedVia = Nothing
    /\ n \in 1..Len(evalTasks)
    /\ LET obj == heap[evalTasks[n].content]
       IN  CASE kind = "field" ->
                  heap' = [heap EXCEPT ![evalTasks[n].content].text = Some(<<"!">>)]
             [] kind = "tags" ->
                  /\ obj.tags # Nothing
                  /\ heap' = [heap EXCEPT ![obj.tags[1]] = Append(@, <<"x">>)]
             [] kind = "options" ->
                  /\ obj.options # Nothing
                  /\ heap' = [heap EXCEPT ![obj.options[1]].parseMode = "changed"]
    /\ mutatedVia' = Some(n)
    /\ UNCHANGED <<input, output, evalPc, ruleIdx, targetIdx, evalTasks, taskOrigin,
                   evalError, evalObs, adapterVars, now, callVars, obsVars>>

\* The options bag a caller attaches to its content.
HtmlOptions == [parseMode |-> "HTML"]

\* An adapter id no adapter is registered under.
UnknownAdapter == "facebook"

\* Contents handed to evaluateRules, with their options bag: one that fails
\* validation, one with text, tags and options, one with an audio file only.
RuleContents ==
    {[content |-> Content(Some(<<" ">>), Nothing, Nothing, Nothing, Nothing, Nothing,
                          Nothing, Nothing),
      options |-> Nothing],
     [content |-> Content(Some(<<"H", "i">>), Some(<<Public>>), Nothing, Nothing, Nothing,
                          Nothing, Nothing, Nothing),
      options |-> Some(HtmlOptions)],
     [content |-> Content(Nothing, Nothing, Nothing, Nothing, Nothing, Nothing, Nothing,
                          Some(<<"u">>)),
      options |-> Nothing]}

\* The `if` blocks of the rules.
RuleConditions ==
    {NoConditions,
     Conditions(Some(TagArray(<<Public>>)), Nothing, Nothing, Nothing),
     Conditions(Nothing, Nothing, Nothing, Some(TRUE))}

HalfHour == StringValue(<<"3", "0", "m">>)
OneHour == StringValue(<<"1", "h">>)
BadDelay == StringValue(<<"5", "x">>)
Channel == <<"@", "c", "h">>

\* The `publish` lists of the rules.
PublishLists ==
    {<<>>,
     <<Target("dummy", UndefinedValue, Nothing)>>,
     <<Target("telegram", HalfHour, Some(Channel)), Target("dummy", OneHour, Nothing)>>,
     <<Target(UnknownAdapter, BadDelay, Nothing), Target("dummy", NullValue, Some(<<>>))>>,
     <<Target("dummy", NumberValue(0), Nothing), Target("telegram", BadDelay, Nothing),
       Target("dummy", HalfHour, Some(Channel))>>}

RuleLists ==
    UNION {{[i \in 1..n |-> Rule(i, f[i][1], f[i][2])] :
                f \in [1..n -> RuleConditions \X PublishLists]}
           : n \in 0..MaxRules}

\* The adapters registered in the Map handed to evaluateRules.
Registries == {Adapters, {"dummy"}}

RulesInit ==
    /\ \E c \in RuleContents :
          input \in [content : {c.content}, options : {c.options}, rules : RuleLists,
                     registry : Registries, clock : {[day |-> 1, ms |-> 0]}]
    /\ output = Nothing
    /\ unimplemented = {}
    /\ rejectVerify = FALSE
    /\ EvalIdle
    /\ EngineInit

RulesNext ==
    \/ EvaluateRules
    \/ NextRule
    \/ NextTarget
    \/ TargetsDone
    \/ ReturnTasks
    \/ \E n \in 1..(3 * MaxRules), kind \in {"field", "tags", "options"} :
          WriteThrough(n, kind)

RulesSpec == RulesInit /\ [][RulesNext]_vars

\* ------------------------------------------------------------ adapter members

\* Longest text (in characters) the calls below carry beyond an adapter's limit.
Excess == 1

\* How an async member ends: resolved with a value, or rejected with an error.
\* (Calling a member that does not exist throws at the call; awaited, as
\* assert.rejects does, it is a rejection too.)
Resolved(value) == [ok |-> TRUE, name |-> "", message |-> <<>>, value |-> value]
Rejected(name, message) == [ok |-> FALSE, name |-> name, message |-> message, value |-> <<>>]

\* new NotImplementedError(method)
NotImplemented(method) ==
    Rejected("NotImplementedError",
             <<"Method '", method, "' must be implemented by the adapter">>)

\* new Error(`Adapter '${this.constructor.name}' does not support ...`)
NotSupported(class, what) ==
    Rejected("Error", <<"Adapter '", class, "' does not support ", what>>)

\* TypeError: adapter.member is not a function
NotAFunction(member) == Rejected("TypeError", <<"adapter.", member, " is not a function">>)

\* can(cap): this.capabilities.includes(cap)
Can(caps, cap) == cap \in caps

\* The async members class SocialAdapter defines.
BaseMembers == {"verify", "publish", "delete", "syncFeedback", "reply"}

\* SocialAdapter.prototype.delete
BaseDelete(class, caps) ==
    IF ~Can(caps, "delete") THEN NotSupported(class, "deleting posts.")
    ELSE NotImplemented("delete")

\* SocialAdapter.prototype.reply
BaseReply(class, caps) ==
    IF ~Can(caps, "reply") THEN NotSupported(class, "replying.")
    ELSE NotImplemented("reply")

\* adapter[member](...) on an adapter that overrides no member: the member of
\* SocialAdapter runs, if SocialAdapter has one.
InheritedCall(class, caps, member) ==
    IF member \notin BaseMembers THEN NotAFunction(member)
    ELSE IF member = "delete" THEN BaseDelete(class, caps)
    ELSE IF member = "reply" THEN BaseReply(class, caps)
    ELSE NotImplemented(member)

\* limits.maxLength of the library adapters
MaxLength(adapter) == IF adapter = "dummy" THEN 280 ELSE 4096

\* content.text && content.text.length > this.limits.maxLength
TooLong(content, adapter) ==
    Truthy(content.text) /\ Len(content.text[1]) > MaxLength(adapter)

\* new Error(`Content exceeds max length of ${this.limits.maxLength}`)
LengthExceeded(adapter) ==
    Rejected("Error", <<"Content exceeds max length of ", MaxLength(adapter)>>)

\* DummyAdapter.publish(content) at time clock: how it ends, and the post it
\* stores.
DummyPublish(content, clock) ==
    IF TooLong(content, "dummy")
    THEN [outcome |-> LengthExceeded("dummy"), requests |-> <<>>, stored |-> Nothing]
    ELSE [outcome |-> Resolved(PublishReturn("dummy", clock, 0)), requests |-> <<>>,
          stored |-> Some(PublishReturn("dummy", clock, 0).id)]

\* TelegramAdapter.publish(content), the Bot API answering ok with message_id
\* msg: how it ends, and the API methods it called.
TelegramPublish(content, msg) ==
    IF Truthy(content.photo)
    THEN [outcome |-> Resolved(PublishReturn("telegram", 0, msg)),
          requests |-> <<"sendPhoto">>, stored |-> Nothing]
    ELSE IF Truthy(content.document)
    THEN [outcome |-> Resolved(PublishReturn("telegram", 0, msg)),
          requests |-> <<"sendDocument">>, stored |-> Nothing]
    ELSE IF TooLong(content, "telegram")
    THEN [outcome |-> LengthExceeded("telegram"), requests |-> <<>>, stored |-> Nothing]
    ELSE [outcome |-> Resolved(PublishReturn("telegram", 0, msg)),
          requests |-> <<"sendMessage">>, stored |-> Nothing]

\* 'a'.repeat(n)
Repeat(n) == [i \in 1..n |-> "a"]

\* Texts around the limits of the two adapters.
PublishTexts ==
    {Nothing, Some(<<>>), Some(Repeat(1))}
        \cup {Some(Repeat(MaxLength(a) + d)) : a \in Adapters, d \in 0..Excess}

PublishContents ==
    {Content(text, Nothing, Nothing, Nothing, photo, Nothing, document, Nothing) :
        text \in PublishTexts, photo \in MediaReferences, document \in MediaReferences}

\* The capability tokens the guarded members ask for.
GuardTokens == {"edit", "delete", "reply"}

\* Calls of publish on the library adapters, and of update, delete and reply
\* on adapters that override none of them: SocialAdapter itself and
\* subclasses that only declare capabilities.
AdapterCalls ==
    [member : {"publish"}, class : Adapters, caps : {GuardTokens},
     content : PublishContents]
        \cup [member : {"update", "delete", "reply"}, class : {"SocialAdapter"},
              caps : {{}},
              content : {Content(Some(<<"n", "e", "w">>), Nothing, Nothing, Nothing, Nothing,
                                 Nothing, Nothing, Nothing)}]
        \cup [member : {"update", "delete", "reply"}, class : {"MyAdapter"},
              caps : SUBSET GuardTokens,
              content : {Content(Some(<<"n", "e", "w">>), Nothing, Nothing, Nothing, Nothing,
                                 Nothing, Nothing, Nothing)}]

AdapterInit ==
    /\ input \in AdapterCalls
    /\ output = Nothing
    /\ unimplemented = {}
    /\ rejectVerify = FALSE
    /\ EvalIdle
    /\ EngineInit

\* await adapter.publish(content) on a DummyAdapter or a TelegramAdapter
PublishMember ==
    /\ output = Nothing
    /\ input.member = "publish"
    /\ LET done == IF input.class = "dummy" THEN DummyPublish(input.content, now)
                   ELSE TelegramPublish(input.content, tgMessageId + 1)
       IN  /\ output' = Some([outcome |-> done.outcome, requests |-> done.requests])
           /\ posts' = IF done.stored = Nothing THEN posts
                       ELSE MapSet(posts, done.stored[1], input.content)
           /\ tgMessageId' = tgMessageId + Len(done.requests)
    /\ UNCHANGED <<input, evalVars, unimplemented, rejectVerify, now, callVars, obsVars>>

\* await adapter.update(...), adapter.delete(...) or adapter.reply(...) on an
\* adapter that overrides none of them
GuardedMember ==
    /\ output = Nothing
    /\ input.member # "publish"
    /\ output' = Some([outcome |-> InheritedCall(input.class, input.caps, input.member),
                       requests |-> <<>>])
    /\ UNCHANGED <<input, evalVars, adapterVars, now, callVars, obsVars>>

AdapterNext == PublishMember \/ GuardedMember

AdapterSpec == AdapterInit /\ [][AdapterNext]_vars

\* ------------------------------------------------------------ claims

\* The call has left the verify() gate.
PastGate == pc \in {"partition", "immediate", "publishing", "joining", "returned",
                    "thrown", "crashed"}

\* The adapters the task list refers to.
Referenced == {tasks[t].adapter : t \in TaskIds}

\* Tasks of adapter a.
TasksOf(a) == {t \in TaskIds : tasks[t].adapter = a}

\* Tasks dropped by the gate: their adapter's verify() failed.
Dropped ==
    {t \in TaskIds : verifyOpt /\ verifyRet[tasks[t].adapter] \in {"throw", "notimplemented"}}
Survivors == TaskIds \ Dropped

\* The lanes, from the task list alone.
ImmediateLane == {t \in Survivors : tasks[t].delayMs = 0}
DelayedLane == {t \in Survivors : tasks[t].delayMs > 0}

\* The members of a set of task indices, in task-list order.
RECURSIVE InOrder(_, _)
InOrder(S, from) ==
    IF from > Len(tasks) THEN <<>>
    ELSE (IF from \in S THEN <<from>> ELSE <<>>) \o InOrder(S, from + 1)

\* Results of the call that belong to task t.
ResultsOf(t) == {j \in 1..Len(results) : results[j].ruleName = tasks[t].ruleName}

\* C1: with the verification gate enabled, one executeTasks call invokes
\* verify() exactly once for each distinct adapter the task list refers to,
\* however many tasks (immediate or delayed) refer to it: never more than once,
\* and once the gate is passed exactly once (and never for another adapter).
C1_VerifyOncePerAdapter ==
    verifyOpt =>
        /\ \A a \in Adapters : verifyCalls[a] <= 1
        /\ PastGate =>
              \A a \in Adapters : verifyCalls[a] = (IF a \in Referenced THEN 1 ELSE 0)

\* C1's case: a call with the gate that returned, in which one adapter serves
\* an immediate and a delayed task and was verified once.
C1_Witness ==
    /\ pc = "returned"
    /\ verifyOpt
    /\ \E a \in Adapters :
          /\ verifyCalls[a] = 1
          /\ \E s, t \in TasksOf(a) :
                /\ tasks[s].delayMs = 0 /\ tasks[t].delayMs > 0
                /\ pubState[s] = "ok" /\ pubState[t] = "ok"

\* C3: with the verification gate enabled, verify() calls are made one at a
\* time (never two in flight at once), one per distinct adapter, and every
\* verify() call of the batch has settled before the first publish of the batch
\* is invoked.
C3_VerifySequentialBeforePublish ==
    verifyOpt =>
        /\ Cardinality(verifyInFlight) <= 1
        /\ \A a \in Adapters : verifyCalls[a] <= 1
        /\ (\E t \in TaskIds : pubCalls[t] > 0) =>
              /\ verifyInFlight = {}
              /\ \A a \in Referenced : verifyCalls[a] = 1 /\ verifyRet[a] # NoValue

\* C3's case: both adapters were verified, one after the other, and a publish
\* is in flight.
C3_Witness ==
    /\ verifyOpt
    /\ \A a \in Adapters : verifyCalls[a] = 1 /\ verifyRet[a] # NoValue
    /\ \E t \in TaskIds : pubState[t] = "inflight"

\* C4: immediate tasks (delayMs = 0) are published strictly in task-list order
\* and one at a time: the publish of an immediate task is not invoked until the
\* publish of every immediate task before it has completed, so no two
\* immediate publishes are ever in flight together.
C4_ImmediateSequential ==
    /\ Cardinality({t \in ImmediateLane : pubState[t] = "inflight"}) <= 1
    /\ \A s, t \in ImmediateLane :
          (s < t /\ pubCalls[t] > 0) => (pubCalls[s] = 1 /\ pubState[s] = "ok")

\* C4's case: the second immediate task is being published after the first
\* one completed.
C4_Witness ==
    \E s, t \in ImmediateLane :
        s < t /\ pubState[s] = "ok" /\ pubState[t] = "inflight"

\* The rule names of a sequence of results.
RuleNamesOf(rs) == [j \in 1..Len(rs) |-> rs[j].ruleName]

\* C5: the result list returned by executeTasks holds all immediate-lane
\* results first, in task submission order, followed by all delayed-lane
\* results in task submission order, whatever the order in which the delays
\* expire or the publishes complete.
C5_ResultOrder ==
    pc = "returned" =>
        RuleNamesOf(results) =
            [j \in 1..Len(InOrder(ImmediateLane, 1) \o InOrder(DelayedLane, 1)) |->
                tasks[(InOrder(ImmediateLane, 1) \o InOrder(DelayedLane, 1))[j]].ruleName]

\* C5's case: a returned call whose list has two delayed tasks before an
\* immediate one, the second delayed task published before the first.
C5_Witness ==
    /\ pc = "returned"
    /\ \E s, t \in DelayedLane, u \in ImmediateLane :
          /\ s < t /\ t < u
          /\ pubAt[t] < pubAt[s]
          /\ Len(results) = 3

\* C9: delayed tasks are not serialized: the timers of all delayed tasks of a
\* batch are started together, before the publish of any delayed task is
\* invoked, so no delayed task waits for another one's delay or publish before
\* its own delay starts counting.
C9_TimersStartedTogether ==
    \A s, t \in DelayedLane :
        /\ (timer[t] # "none") => (timer[s] # "none" /\ schedAt[s] = schedAt[t])
        /\ (pubCalls[t] > 0) => timer[s] # "none"

\* C9's case: a later delayed task has already been published while the timer
\* of an earlier one is still pending.
C9_Witness ==
    \E s, t \in DelayedLane :
        s < t /\ timer[s] = "pending" /\ pubState[t] = "ok"

\* The call has settled: it returned its results or rejected.
Settled == pc \in {"returned", "thrown"}

\* C2: with the verification gate enabled, if an adapter's verify() fails then
\* for every task bound to that adapter (in either lane) publish is never
\* invoked and no result is emitted, executeTasks does not throw because of it,
\* and every task bound to any other adapter whose verify() succeeded is still
\* published and yields its result.
C2_VerifyFailureIsolated ==
    (verifyOpt /\ \E a \in Referenced : verifyRet[a] = "throw") =>
        /\ \A t \in Dropped : pubCalls[t] = 0 /\ ResultsOf(t) = {}
        /\ pc = "thrown" => \E t \in TaskIds : pubState[t] = "failed"
        /\ pc = "returned" =>
              \A t \in Survivors :
                  /\ pubCalls[t] = 1
                  /\ pubState[t] = "ok"
                  /\ Cardinality(ResultsOf(t)) = 1

\* C6: when executeTasks returns normally, every task that survived the
\* verification gate has had publish invoked exactly once and contributes
\* exactly one result (as many results as surviving tasks), that result
\* carrying the id and url returned by the adapter together with the task's
\* ruleName and the adapter's id; no surviving task is left out of both lanes.
C6_EverySurvivorPublishedOnce ==
    pc = "returned" =>
        /\ Len(results) = Cardinality(Survivors)
        /\ \A t \in Survivors :
              /\ t \in ImmediateLane \cup DelayedLane
              /\ pubCalls[t] = 1
              /\ pubRet[t] # Nothing
              /\ Cardinality(ResultsOf(t)) = 1
              /\ \A j \in ResultsOf(t) :
                    results[j] = [id |-> pubRet[t][1].id, url |-> pubRet[t][1].url,
                                  ruleName |-> tasks[t].ruleName,
                                  adapter |-> AdapterId(tasks[t].adapter)]

\* C7: a failure raised by an adapter's publish during executeTasks, for a task
\* of the immediate lane or of the delayed lane, propagates out of executeTasks:
\* the call rejects with that error and returns no result list.
C7_PublishFailurePropagates ==
    (\E t \in TaskIds : pubState[t] = "failed") =>
        /\ pc = "thrown"
        /\ error # Nothing
        /\ error[1].failed = "publish"
        /\ pubState[error[1].task] = "failed"

\* C8: every executeTasks call eventually settles (returns or throws) provided
\* each adapter's verify() and publish() calls settle, and once it has settled
\* no timer or publish started by the call is still pending.  As a property of
\* states: a settled call has nothing pending, and a call that has not settled
\* (in a process that is still running) can always take a further step.
C8_SettlesWithNothingPending ==
    /\ Settled =>
          \A t \in TaskIds : timer[t] # "pending" /\ pubState[t] # "inflight"
    /\ pc \notin {"returned", "thrown", "crashed"} => ENABLED Next

\* C10: the publish of a delayed task (delayMs > 0) is invoked only after that
\* task's delayMs has elapsed since the task was scheduled, however large the
\* delay.
C10_DelayElapsedBeforePublish ==
    \A t \in TaskIds :
        (tasks[t].delayMs > 0 /\ pubCalls[t] > 0) =>
            pubAt[t] - schedAt[t] >= tasks[t].delayMs

\* A member inherited from SocialAdapter has thrown its NotImplementedError
\* during the call: verify() in the gate, publish() in either lane, or the id
\* getter.
NotImplementedRaised ==
    \/ \E a \in AllAdapters : verifyRet[a] = "notimplemented"
    \/ \E t \in TaskIds : pubState[t] = "failed" /\ Missing(tasks[t].adapter, "publish")
    \/ \E t \in TaskIds : pubState[t] = "ok" /\ Missing(tasks[t].adapter, "id")

\* C11: a NotImplemented error raised by an adapter's un-overridden required
\* member is always propagated to the caller and never silently swallowed,
\* including when it is raised while executeTasks runs its verification gate:
\* once such an error has been raised, the call has rejected with a
\* NotImplementedError.
C11_NotImplementedPropagates ==
    NotImplementedRaised =>
        /\ pc = "thrown"
        /\ error # Nothing
        /\ error[1].name = "NotImplementedError"

\* C12: verify() is a mandatory gate: in every executeTasks call, publish is
\* never invoked on an adapter before that adapter's verify() has been called
\* in that call.
C12_VerifyBeforeEveryPublish ==
    \A t \in TaskIds : pubCalls[t] > 0 => verifyCalls[tasks[t].adapter] >= 1

\* ------------------------------------------------------------ claims: parseDelay

\* The function under study has been applied to the input.
Applied == output # Nothing

\* Hours and minutes of a day among those the literals are made of.
DayHours == {h \in Hours : h < 24}
DayMinutes == {m \in Minutes : m < 60}

\* '<Weekday> HH:MM'
WeekdayLiteral(d, h, m) ==
    DayNames[d] \o <<" ">> \o TwoDigits(h) \o <<":">> \o TwoDigits(m)

\* Milliseconds of a minute, an hour, a day.
MinuteMs == 60000
HourMs == 3600000
DayMs == 86400000

\* C13: for every weekday literal '<Weekday> HH:MM' and every current time,
\* parseDelay returns a value strictly greater than 0 and at most 7 days
\* (604,800,000 ms).
C13_WeekdayWithinSevenDays ==
    \A d \in DOMAIN DayNames, h \in DayHours, m \in DayMinutes :
        (Applied /\ input.delay = StringValue(WeekdayLiteral(d, h, m))) =>
            /\ ~output[1].threw
            /\ output[1].value > 0
            /\ output[1].value <= 7 * DayMs

\* From the clock to the next occurrence of weekday d at h:m that lies in the
\* future: this week's occurrence if it is still ahead, else the one 7 days on.
NextOccurrence(d, h, m, clock) ==
    LET ahead == ((d - clock.day + 7) % 7) * DayMs + h * HourMs + m * MinuteMs - clock.ms
    IN  IF ahead > 0 THEN ahead ELSE ahead + 7 * DayMs

\* C14: for every weekday literal '<Weekday> HH:MM' and every current time,
\* parseDelay returns the number of milliseconds from now to the next future
\* occurrence of that weekday and time of day: later today when today is that
\* weekday and the time has not yet passed, and exactly 7 days after today's
\* occurrence only when that occurrence equals or precedes now.
C14_WeekdayNextOccurrence ==
    \A d \in DOMAIN DayNames, h \in DayHours, m \in DayMinutes :
        (Applied /\ input.delay = StringValue(WeekdayLiteral(d, h, m))) =>
            output[1] = Returned(NextOccurrence(d, h, m, input.clock))

C16_ResultNonNegative ==
    (Applied /\ ~output[1].threw) => output[1].value \in Nat

\* A string of decimal digits, an 'HH:MM', a run of white space.
IsCount(s) == s # <<>> /\ \A i \in 1..Len(s) : \E n \in 1..10 : s[i] = DigitChars[n]
IsClockTime(s) ==
    /\ Len(s) = 5
    /\ s[3] = ":"
    /\ IsCount(SubSeq(s, 1, 2)) /\ IsCount(SubSeq(s, 4, 5))
IsGap(s) == s # <<>> /\ \A i \in 1..Len(s) : s[i] \in WhiteSpace

\* The literal is of one of the accepted forms '0', '<N>m', '<N>h', '<N>d',
\* '<N>d HH:MM', '<Weekday> HH:MM' (white space around the literal and the
\* width of the gap before HH:MM do not count).
AcceptedForm(s) ==
    \/ s = <<"0">>
    \/ \E u \in {"m", "h", "d"} : s = SubSeq(s, 1, Len(s) - 1) \o <<u>>
                                   /\ IsCount(SubSeq(s, 1, Len(s) - 1))
    \/ \E i, j \in 1..Len(s) :
          /\ i < j
          /\ IsCount(SubSeq(s, 1, i - 1))
          /\ s[i] = "d"
          /\ IsGap(SubSeq(s, i + 1, j - 1))
          /\ IsClockTime(SubSeq(s, j, Len(s)))
    \/ \E j \in 4..Len(s), d \in DOMAIN DayNames :
          /\ SubSeq(s, 1, 3) = DayNames[d]
          /\ IsGap(SubSeq(s, 4, j - 1))
          /\ IsClockTime(SubSeq(s, j, Len(s)))

\* The message holds the literal.
NamesLiteral(msg, lit) ==
    \E i \in 1..Len(msg) :
        i + Len(lit) - 1 <= Len(msg) /\ SubSeq(msg, i, i + Len(lit) - 1) = lit

\* C17: parseDelay fails with an invalid-delay-format error naming the
\* offending literal for every non-numeric literal that is none of the accepted
\* forms, e.g. 'tomorrow' and '5x'; it never returns a number for such a
\* literal.
C17_InvalidLiteralRejected ==
    (Applied /\ input.delay.kind = "string" /\ ~AcceptedForm(Trim(input.delay.chars))) =>
        /\ output[1].threw
        /\ SubSeq(output[1].message, 1, 1) = <<"Invalid delay format: '">>
        /\ NamesLiteral(output[1].message, input.delay.chars)

\* C17's case: '5x' has been handed over and rejected.
C17_Witness ==
    /\ Applied
    /\ input.delay = StringValue(<<"5", "x">>)
    /\ output[1].threw
    /\ output[1].message = <<"Invalid delay format: '", "5", "x", "'">>

\* ------------------------------------------------------------ claims: conditions

\* The elements of an array.
Elements(array) == {array[i] : i \in 1..Len(array)}

\* The content carries a media reference: a photo, video, document or audio.
AnyMediaReference(content) ==
    \E ref \in {content.photo, content.video, content.document, content.audio} :
        ref # Nothing /\ ref[1] # <<>>

\* Every condition field that is present is satisfied by the content.
EveryPresentFieldSatisfied(content, conditions) ==
    /\ conditions.tags # Nothing =>
          Elements(ContentTags(content)) \cap Elements(conditions.tags[1].items) # {}
    /\ conditions.type # Nothing => content.type = conditions.type
    /\ conditions.lang # Nothing => content.lang = conditions.lang
    /\ conditions.hasMedia # Nothing =>
          conditions.hasMedia[1] = AnyMediaReference(content)

\* C18: matchesConditions(content, conditions) is true exactly when every
\* condition field that is present is satisfied: tags iff the content's tags
\* share an element with the rule's tag list, type and lang iff equal to the
\* content's value, hasMedia iff equal to the content's media presence; an
\* absent field constrains nothing, so an absent or empty condition set matches
\* every content.
C18_MatchesIffEveryFieldSatisfied ==
    Applied =>
        output[1] = EveryPresentFieldSatisfied(input.content, input.conditions)

\* C19: the hasMedia condition compares the requested boolean with the
\* presence of any media reference on the content, a media reference being any
\* one of photo, video, document or audio: content carrying only an audio
\* reference satisfies hasMedia: true and fails hasMedia: false.
C19_HasMediaCountsAudio ==
    (/\ Applied
     /\ input.conditions.hasMedia # Nothing
     /\ input.conditions.tags = Nothing
     /\ input.conditions.type = Nothing
     /\ input.conditions.lang = Nothing) =>
        output[1] = (input.conditions.hasMedia[1] = AnyMediaReference(input.content))

\* ------------------------------------------------------------ claims: validate

\* The content has text that is not empty once trimmed.
NonBlankText(content) ==
    /\ content.text # Nothing
    /\ \E i \in 1..Len(content.text[1]) : content.text[1][i] \notin WhiteSpace

\* C20: SocialAdapterContent.validate(content) returns valid = true with an
\* empty error list iff the content has text that is non-empty after trimming
\* or at least one of photo, video, document, audio; otherwise it returns
\* valid = false with exactly one error; in every case valid holds iff the
\* error list is empty.
C20_ValidIffTextOrMedia ==
    Applied =>
        /\ (NonBlankText(input) \/ AnyMediaReference(input)) =>
              output[1].valid /\ output[1].errors = <<>>
        /\ ~(NonBlankText(input) \/ AnyMediaReference(input)) =>
              ~output[1].valid /\ Len(output[1].errors) = 1
        /\ output[1].valid <=> output[1].errors = <<>>

\* C20's case: content whose text is white space only, with no media
\* reference, has been validated and found invalid with one error.
C20_Witness ==
    /\ Applied
    /\ input.text = Some(<<" ", "\t", "\n">>)
    /\ ~AnyMediaReference(input)
    /\ ~output[1].valid
    /\ Len(output[1].errors) = 1

\* ------------------------------------------------------------ claims: evaluateRules

\* evaluateRules has been entered.
Entered == evalPc # "idle"

\* C21: when the content handed to evaluateRules fails validation, the call
\* ends by throwing a SocialAdapterValidationError that carries every error
\* validate() listed; no rule has been matched, no adapter looked up, no
\* delay parsed, and no task exists or is returned, whatever the rules and
\* the registry.
C21_InvalidContentFailsFast ==
    (Entered /\ ~Validate(input.content).valid) =>
        /\ evalPc = "thrown"
        /\ evalError = Some(ValidationError(Validate(input.content).errors))
        /\ evalObs.validated
        /\ evalObs.matched = 0
        /\ evalObs.lookups = 0
        /\ evalObs.parsed = 0
        /\ evalTasks = <<>>
        /\ output = Nothing

\* Invalid content was thrown out although the first rule has no conditions
\* and names a registered adapter.
C21_Witness ==
    /\ evalPc = "thrown"
    /\ evalError # Nothing
    /\ evalError[1].name = "SocialAdapterValidationError"
    /\ Len(evalError[1].errors) > 0
    /\ Len(input.rules) > 0
    /\ input.rules[1].cond = NoConditions
    /\ Len(input.rules[1].publish) > 0
    /\ input.rules[1].publish[1].adapter \in input.registry

\* The (rule, destination) pairs of the call, by position.
Destinations ==
    UNION {{<<r, t>> : t \in 1..Len(input.rules[r].publish)} : r \in 1..Len(input.rules)}

\* Pair p comes before pair q in the order of the two loops.
Before(p, q) == p[1] < q[1] \/ (p[1] = q[1] /\ p[2] < q[2])

\* Where the two loops stand.
Position == <<ruleIdx, IF evalPc = "rules" THEN 0 ELSE targetIdx>>

\* The rule of pair p matches the content.
RuleMatches(p) == MatchesConditions(input.content, input.rules[p[1]].cond)

\* The adapter pair p names is registered.
Registered(p) == input.rules[p[1]].publish[p[2]].adapter \in input.registry

\* A task was produced for pair p.
HasTask(p) == \E n \in 1..Len(taskOrigin) : taskOrigin[n] = p

\* C22: a destination of a matching rule that names an adapter missing from
\* the registry is skipped with a warning: it makes evaluateRules neither
\* throw nor produce a task, and the evaluation goes on: when the call
\* returns, every rule has been matched, every destination of every matching
\* rule has been looked up, and every registered destination after the
\* skipped one has its task.
C22_UnknownAdapterSkipped ==
    /\ \A q \in Destinations :
          (Entered /\ Validate(input.content).valid /\ RuleMatches(q) /\ ~Registered(q)
              /\ Before(q, Position)) => q \in evalObs.warned
    /\ \A p \in evalObs.warned :
          /\ p \in Destinations /\ RuleMatches(p) /\ ~Registered(p)
          /\ ~HasTask(p)
          /\ evalError = Nothing \/ evalError[1].at # p
          /\ evalPc = "returned" =>
                /\ evalObs.matched = Len(input.rules)
                /\ evalObs.lookups = Cardinality({q \in Destinations : RuleMatches(q)})
                /\ \A q \in Destinations :
                      (Before(p, q) /\ RuleMatches(q) /\ Registered(q)) => HasTask(q)

\* A call returned after skipping an unregistered destination whose delay
\* would not even parse, with a task for a later destination of the same rule
\* and a task for a later rule.
C22_Witness ==
    /\ evalPc = "returned"
    /\ \E p \in evalObs.warned :
          /\ input.rules[p[1]].publish[p[2]].delay = BadDelay
          /\ \E n, m \in 1..Len(taskOrigin) :
                /\ taskOrigin[n][1] = p[1] /\ taskOrigin[n][2] > p[2]
                /\ taskOrigin[m][1] > p[1]

\* The rule of pair p matches the content: every condition it states is
\* satisfied.
RuleSatisfied(p) == EveryPresentFieldSatisfied(input.content, input.rules[p[1]].cond)

\* The task of pair p: the registered adapter, the parsed delay, the channel
\* override if there is one, and the rule's name.
Carries(task, p) ==
    LET target == input.rules[p[1]].publish[p[2]]
    IN  /\ task.adapter = target.adapter
        /\ task.delayMs = ParseDelay(target.delay, input.clock).value
        /\ task.channel = (IF target.channel \in {Nothing, Some(<<>>)}
                           THEN Nothing ELSE target.channel)
        /\ task.ruleName = input.rules[p[1]].name

\* C23: the list evaluateRules returns (content valid, every delay parsed)
\* has exactly one task for each (rule, destination) pair whose rule matches
\* the content and whose adapter is registered, and no other task, in the
\* order of the rules and then of the destinations; each task carries the
\* adapter, the parsed delay, the channel override (or none) and the rule's
\* name.
C23_OneTaskPerMatchingPair ==
    output # Nothing =>
        /\ Len(taskOrigin) = Len(output[1])
        /\ {taskOrigin[n] : n \in 1..Len(taskOrigin)} =
              {p \in Destinations : RuleSatisfied(p) /\ Registered(p)}
        /\ \A n, m \in 1..Len(taskOrigin) : n < m => Before(taskOrigin[n], taskOrigin[m])
        /\ \A n \in 1..Len(output[1]) : Carries(output[1][n], taskOrigin[n])

\* What is read through a content reference: the fields, the tags and the
\* options bag.
View(ref) ==
    [content |-> ContentAt(heap, ref),
     options |-> IF heap[ref].options = Nothing THEN Nothing
                 ELSE Some(heap[heap[ref].options[1]])]

\* What the caller put in its content.
Original == [content |-> input.content, options |-> input.options]

\* C24: every task holds a clone of its own: after a write through one
\* task's content (to a top-level field, to the tags, to the options bag),
\* every other task's content and the caller's content still read as the
\* caller made them.
C24_ClonesIsolated ==
    mutatedVia # Nothing =>
        /\ View(ContentRef) = Original
        /\ \A m \in 1..Len(evalTasks) :
              m # mutatedVia[1] => View(evalTasks[m].content) = Original

\* The delay literal of pair p does not parse.
BadDelayAt(p) == ParseDelay(input.rules[p[1]].publish[p[2]].delay, input.clock).threw

\* evaluateRules threw the Error of parseDelay.
DelayThrown == evalError # Nothing /\ evalError[1].name = "Error"

\* C25 (as stated): an unparseable delay aborts only its own task; the tasks
\* produced for earlier pairs stay committed: the caller still gets them.
C25_EarlierTasksKept ==
    (DelayThrown /\ evalTasks # <<>>) =>
        /\ output # Nothing
        /\ Len(output[1]) >= Len(evalTasks)
        /\ SubSeq(output[1], 1, Len(evalTasks)) = evalTasks

\* C25 (amended): an unparseable delay literal met at a registered
\* destination of a matching rule is raised synchronously and aborts the
\* whole call: the loops never get past that destination, evaluateRules ends
\* by throwing the Error that names the literal, nothing is returned to the
\* caller (the tasks of earlier pairs are dropped with the call), and no
\* later destination or rule is evaluated.
C25_InvalidDelayAbortsCall ==
    /\ \A q \in Destinations :
          (Validate(input.content).valid /\ RuleMatches(q) /\ Registered(q) /\ BadDelayAt(q))
              => ~Before(q, Position)
    /\ DelayThrown =>
          /\ evalPc = "thrown"
          /\ output = Nothing
          /\ evalError[1].at = <<ruleIdx, targetIdx>>
          /\ evalError[1].at \in Destinations
          /\ evalError[1].message =
                InvalidDelay(input.rules[ruleIdx].publish[targetIdx].delay).message
          /\ evalObs.matched = ruleIdx
          /\ \A q \in Destinations :
                Before(evalError[1].at, q) => ~HasTask(q) /\ q \notin evalObs.warned
          /\ ~ENABLED RulesNext

\* The call threw at the second destination of a rule after a task had been
\* produced for the first, with a registered destination still to come.
C25_Witness ==
    /\ DelayThrown
    /\ evalTasks # <<>>
    /\ \E q \in Destinations :
          Before(evalError[1].at, q) /\ Registered(q) /\ ~BadDelayAt(q)

\* ------------------------------------------------------------ claims: adapter members

\* The capability token a guarded member asks for.
RequiredToken(member) == IF member = "update" THEN "edit" ELSE member

\* The call ended with the error that says the adapter does not support the
\* feature (it is not a NotImplementedError).
CapabilityError(outcome) ==
    /\ ~outcome.ok
    /\ outcome.name = "Error"
    /\ Len(outcome.message) = 4
    /\ outcome.message[3] = "' does not support "

\* C26: update, delete and reply, called on an adapter that does not override
\* them, fail with the capability error when the adapter's capabilities lack
\* the member's token (edit, delete, reply), and with NotImplementedError only
\* when the token is there; so on the base SocialAdapter, whose capabilities
\* are empty, each of the three fails with the capability error.
C26_CapabilityErrorBeforeNotImplemented ==
    (output # Nothing /\ input.member \in {"update", "delete", "reply"}) =>
        IF ~Can(input.caps, RequiredToken(input.member))
        THEN CapabilityError(output[1].outcome)
        ELSE output[1].outcome = NotImplemented(input.member)

\* C27: publish of a content whose text is longer than the adapter's
\* limits.maxLength fails with the length-exceeded error on DummyAdapter and
\* on TelegramAdapter alike, with or without a photo or document in the
\* content, and then nothing is stored in DummyAdapter.posts and no Bot API
\* method is called.
C27_MaxLengthEnforced ==
    (/\ output # Nothing
     /\ input.member = "publish"
     /\ input.content.text # Nothing
     /\ Len(input.content.text[1]) > MaxLength(input.class)) =>
        /\ output[1].outcome = LengthExceeded(input.class)
        /\ output[1].requests = <<>>
        /\ posts = EmptyMap
        /\ tgMessageId = 0

\* ------------------------------------------------------------ claims: publishing

\* The tasks whose publish on the DummyAdapter has completed.
DummyPublished == {t \in TasksOf("dummy") : pubState[t] = "ok"}

\* C28: every successful DummyAdapter.publish stores its post under an id of
\* its own: after n successful publishes, in the immediate loop or from the
\* timers of delayed tasks, posts has n entries (it was empty before the
\* call) and the id each publish returned maps to the post of that publish.
C28_EveryPublishStoresNewPost ==
    /\ Cardinality(DOMAIN posts) = Cardinality(DummyPublished)
    /\ \A t \in DummyPublished : posts[pubRet[t][1].id] = t

\* The publish of an immediate task has been rejected.
ImmediateFailed ==
    /\ error # Nothing
    /\ error[1].failed = "publish"
    /\ tasks[error[1].task].delayMs = 0

\* The positions of the immediate lane before and after the failed task.
EarlierImmediate == {immediate[j] : j \in 1..(k - 1)}
LaterImmediate == {immediate[j] : j \in (k + 1)..Len(immediate)}

\* C29: when the publish of an immediate task fails, the rest of the batch is
\* abandoned for good: executeTasks has thrown and takes no further step, no
\* later immediate task has had publish called, no delayed task has a timer
\* or a publish, while the publishes completed before the failure remain:
\* their results were produced and their posts are on the adapters.
C29_ImmediateFailureAborts ==
    ImmediateFailed =>
        /\ pc = "thrown"
        /\ ~ENABLED Next
        /\ immediate[k] = error[1].task
        /\ pubState[error[1].task] = "failed"
        /\ \A t \in LaterImmediate : pubCalls[t] = 0 /\ pubState[t] = "none"
        /\ \A t \in TaskIds :
              tasks[t].delayMs # 0 => timer[t] = "none" /\ pubCalls[t] = 0
        /\ \A t \in EarlierImmediate :
              /\ pubCalls[t] = 1 /\ pubState[t] = "ok"
              /\ tasks[t].adapter = "dummy" => pubRet[t][1].id \in DOMAIN posts
        /\ tgMessageId = Cardinality(EarlierImmediate \cap TasksOf("telegram"))

\* The second immediate task failed: the first is published and its post is
\* stored, and a delayed task is left without a timer.
C29_Witness ==
    /\ ImmediateFailed
    /\ EarlierImmediate # {}
    /\ \E t \in TaskIds : tasks[t].delayMs > 0 /\ timer[t] = "none"
    /\ DOMAIN posts # {}

\* C30: the gate marks an adapter failed only when its verify() throws: an
\* adapter whose verify() resolved with false is stored as verified, none of
\* its tasks is dropped, and when executeTasks returns every one of its tasks
\* has been published and has its result.
C30_FalseVerifyPasses ==
    /\ \A a \in DOMAIN verified :
          ~verified[a] <=> verifyRet[a] \in {"throw", "notimplemented"}
    /\ \A a \in Referenced :
          (verifyOpt /\ verifyRet[a] = "false") =>
              /\ a \in DOMAIN verified /\ verified[a]
              /\ TasksOf(a) \cap Dropped = {}
              /\ PastGate => \A t \in TasksOf(a) : \E j \in 1..Len(surviving) : surviving[j] = t
              /\ pc = "returned" =>
                    \A t \in TasksOf(a) :
                        /\ pubCalls[t] = 1
                        /\ pubState[t] = "ok"
                        /\ Cardinality(ResultsOf(t)) = 1

====
